---- MODULE Spec2Model ----
(***************************************************************************)
(* Model of src/python/mcp_server.py: the JSON-RPC call endpoint           *)
(* (mcp_post) and the event-stream endpoint (sse / event_stream).          *)
(*                                                                         *)
(* JSON values are records [t, n, s]: t is the JSON type, n the number of  *)
(* an int (or the length of a list), s the text of a string.  A key that   *)
(* is missing from an object is the value Absent.                          *)
(***************************************************************************)
EXTENDS Integers, Sequences, FiniteSets, TLC

\* ------------------------------------------------------------------ bounds
\* Integer ids and non-zero integer parameter values range over 1..MaxInt.
MaxInt == 1

\* Number of event-stream sessions that can be opened.
MaxSessions == 2

\* ------------------------------------------------------------ JSON values
Absent == [t |-> "absent", n |-> 0, s |-> ""]

JNull == [t |-> "null", n |-> 0, s |-> ""]

JInt(i) == [t |-> "int", n |-> i, s |-> ""]

JStr(x) == [t |-> "str", n |-> 0, s |-> x]

\* A JSON list with k elements (k = 0 is the empty list).
JList(k) == [t |-> "list", n |-> k, s |-> ""]

\* A JSON object used as a parameter value; k is its number of keys.
JDict(k) == [t |-> "dict", n |-> k, s |-> ""]

\* dict.get(key): a missing key reads as None.
dict_get(v) == IF v = Absent THEN JNull ELSE v

\* Variant of Truthy: the test `if table is None:` instead of `if not table:`.
Truthy_is_not_none(v) == v.t \notin {"absent", "null"}

\* Python truthiness of a JSON value, as tested by `if not table:`.
Truthy(v) ==
    CASE v.t = "absent" -> FALSE
      [] v.t = "null" -> FALSE
      [] v.t = "int" -> v.n # 0
      [] v.t = "str" -> v.s # ""
      [] v.t = "list" -> v.n # 0
      [] v.t = "dict" -> v.n # 0
      [] OTHER -> TRUE

\* ---------------------------------------------------------- request bodies
KnownMethods ==
    {"initialize", "shutdown", "list_tables", "discover_data", "prepare_query", "query"}

\* Method names a client may send that the server does not route.
UnknownMethods == {"list_views"}

IntValues == {JInt(i) : i \in 1..MaxInt}

\* Values of the id key of an object body.
IdValues == IntValues \cup {JStr("req-a"), Absent, JList(1)}

\* Values of the method key of an object body.
MethodValues ==
    {JStr(m) : m \in KnownMethods \cup UnknownMethods} \cup {Absent, JInt(1)}

\* Values of the jsonrpc key of an object body.
JsonrpcValues == {JStr("2.0"), Absent, JInt(2)}

\* Values of params["table"] / params["query"].
FieldValues == IntValues \cup {Absent, JStr(""), JStr("users"), JInt(0), JList(1)}

\* Values of params["clientInfo"].
ClientInfoValues == {Absent, JDict(2), JStr("vscode")}

NoParams(tag) == [t |-> tag, table |-> Absent, query |-> Absent, clientInfo |-> Absent]

\* Values of the params key: missing, null, a list, or an object.
ParamsValues ==
    {NoParams("absent"), NoParams("null"), NoParams("list")}
    \cup {[t |-> "dict", table |-> tb, query |-> Absent, clientInfo |-> Absent] :
            tb \in FieldValues}
    \cup {[t |-> "dict", table |-> Absent, query |-> q, clientInfo |-> Absent] :
            q \in FieldValues}
    \cup {[t |-> "dict", table |-> Absent, query |-> Absent, clientInfo |-> ci] :
            ci \in ClientInfoValues}
    \cup {[t |-> "dict", table |-> JStr("users"), query |-> JStr("users"),
           clientInfo |-> JDict(2)]}

\* A body that is not a JSON object, or not JSON at all.  raw is "json" when
\* the bytes parse, "empty" for zero bytes, "garbage" for unparseable bytes.
NonObject(raw, tag) ==
    [raw |-> raw, t |-> tag, jsonrpc |-> Absent, id |-> Absent, method |-> Absent,
     params |-> NoParams("absent")]

ObjectBodies ==
    {[raw |-> "json", t |-> "dict", jsonrpc |-> JStr("2.0"), id |-> i, method |-> m,
      params |-> p] : i \in IdValues, m \in MethodValues, p \in ParamsValues}
    \cup {[raw |-> "json", t |-> "dict", jsonrpc |-> j, id |-> i, method |-> m,
           params |-> NoParams("absent")] :
            j \in JsonrpcValues, i \in IdValues, m \in MethodValues}

Bodies ==
    {NonObject("empty", "none"), NonObject("garbage", "none"),
     NonObject("json", "list"), NonObject("json", "str"),
     NonObject("json", "int"), NonObject("json", "null")}
    \cup ObjectBodies

\* ------------------------------------------------------- module constants
MCP_SERVER_NAME == "Python FastAPI MCP"

MCP_SERVER_VERSION == "1.0.0"

\* Names bound at module level (imports, assignments, defs) or built in.
BoundNames ==
    {"MCP_SERVER_NAME", "MCP_SERVER_VERSION", "MCP_PROTOCOL_VERSION", "DEBUG",
     "True", "False", "None", "json", "logger", "status", "JSONResponse"}

\* Free names the capabilities dict literal evaluates, in evaluation order.
CapabilitiesNames == <<"MCP_SERVER_NAME", "MCP_SERVER_VERSION", "true", "true">>

Tool(name, description, properties, required) ==
    [name |-> name, description |-> description,
     parameters |-> [type |-> "object", properties |-> properties, required |-> required]]

StringProperty(key, description) == <<key, "string", description>>

\* The four-tool list of the capabilities literal.
Tools ==
    << Tool("list_tables", "List all available tables", <<>>, <<>>),
       Tool("discover_data", "Discover data in tables",
            <<StringProperty("table", "Table name to discover")>>, <<"table">>),
       Tool("prepare_query", "Prepare a SQL query",
            <<StringProperty("query", "SQL query to prepare")>>, <<"query">>),
       Tool("query", "Execute a SQL query",
            <<StringProperty("query", "SQL query to execute")>>, <<"query">>) >>

\* ------------------------------------------------------------- exceptions
\* An exception: its class and what str(e) depends on.
Exc(type, msg) == [type |-> type, msg |-> <<msg>>]

\* Evaluating the capabilities dict literal: every free name is looked up;
\* the first unbound one raises NameError and no dict is built.
CapabilitiesLiteral ==
    LET unbound == {k \in 1..Len(CapabilitiesNames) : CapabilitiesNames[k] \notin BoundNames}
    IN  IF unbound = {}
        THEN [ok |-> TRUE,
              value |-> [capabilities |->
                           [serverName |-> MCP_SERVER_NAME,
                            serverVersion |-> MCP_SERVER_VERSION,
                            tools |-> Tools,
                            capabilities |->
                               [supportedLanguages |-> <<"sql", "python">>,
                                supportsNotebooks |-> TRUE,
                                supportsInlineCompletions |-> TRUE]]]]
        ELSE LET k == CHOOSE i \in unbound : \A j \in unbound : i <= j
             IN  [ok |-> FALSE,
                  exc |-> Exc("NameError", CapabilitiesNames[k])]

\* await request.json(): zero bytes and unparseable bytes raise.
request_json(raw) ==
    CASE raw.raw = "json" -> [ok |-> TRUE]
      [] raw.raw = "empty" -> [ok |-> FALSE, exc |-> Exc("JSONDecodeError", "empty")]
      [] OTHER -> [ok |-> FALSE, exc |-> Exc("JSONDecodeError", "garbage")]

\* The fields of MCPRequest that reject the body's value.
\*   jsonrpc: str = "2.0"; id: Union[int, str]; method: str;
\*   params: Optional[Dict[str, Any]] = None
\* An int or str id is accepted and kept as it is; keys the model does not
\* declare are ignored.
InvalidFields(body) ==
    {f \in {"jsonrpc"} : body.jsonrpc.t \notin {"str", "absent"}}
    \cup {f \in {"id"} : body.id.t \notin {"int", "str"}}
    \cup {f \in {"method"} : body.method.t # "str"}
    \cup {f \in {"params"} : body.params.t \notin {"dict", "null", "absent"}}

\* MCPRequest(**body): a non-mapping cannot be unpacked, a mapping is validated.
MCPRequest(body) ==
    IF body.t # "dict"
    THEN [ok |-> FALSE, exc |-> Exc("TypeError", body.t)]
    ELSE IF InvalidFields(body) # {}
         THEN [ok |-> FALSE, exc |-> Exc("ValidationError", InvalidFields(body))]
         ELSE [ok |-> TRUE, method |-> body.method.s, id |-> body.id,
               params |-> IF body.params.t = "dict"
                          THEN body.params ELSE NoParams("dict")]

\* --------------------------------------------------------------- envelopes
\* Variant of DebugDetail: the message is attached whatever the debug flag.
DebugDetail_always(debug, e) == [detail |-> e.msg, type |-> e.type]

\* "data": {"detail": str(e)} if DEBUG else None
DebugDetail(debug, e) == IF debug THEN [detail |-> e.msg, type |-> e.type] ELSE JNull

\* Variant of ErrorEnvelope: the envelope dumped from MCPResponse, which
\* writes the unset result key as null next to the error.
ErrorEnvelope_with_result(id, code, message, data) ==
    [jsonrpc |-> "2.0", id |-> id, result |-> JNull,
     error |-> [code |-> code, message |-> message, data |-> data]]

ErrorEnvelope(id, code, message, data) ==
    [jsonrpc |-> "2.0", id |-> id,
     error |-> [code |-> code, message |-> message, data |-> data]]

ResultEnvelope(id, result) == [jsonrpc |-> "2.0", id |-> id, result |-> result]

\* What one call of mcp_post produces: the HTTP status, the JSON content,
\* the method branch that ran ("none" when routing was not reached) and
\* whether the branch got past parameter validation to its backend step.
Outcome(st, content, handler, backend) ==
    [status |-> st, content |-> content, handler |-> handler, backend |-> backend]

\* Variant of CatchAll: the catch-all reports the fault with the code of the
\* tool branches' handlers.
CatchAll_application_error(debug, e, handler) ==
    Outcome(500, ErrorEnvelope(JNull, -32000, "Internal error", DebugDetail(debug, e)),
            handler, FALSE)

\* The outer `except Exception` of mcp_post.
CatchAll(debug, e, handler) ==
    Outcome(500, ErrorEnvelope(JNull, -32603, "Internal error", DebugDetail(debug, e)),
            handler, FALSE)

\* Variant of ParseErrorResponse: the id is not recovered from the body.
ParseErrorResponse_null_id(debug, raw, parsed, e) ==
    IF ~parsed
    THEN CatchAll(debug, Exc("UnboundLocalError", "body"), "none")
    ELSE Outcome(400,
                 ErrorEnvelope(JNull, -32700, "Parse error", DebugDetail(debug, e)),
                 "none", FALSE)

\* The inner `except Exception` around parsing and validation.  It reads
\* `body`, which is unbound when request.json() itself raised.
ParseErrorResponse(debug, raw, parsed, e) ==
    IF ~parsed
    THEN CatchAll(debug, Exc("UnboundLocalError", "body"), "none")
    ELSE Outcome(400,
                 ErrorEnvelope(IF raw.t = "dict" THEN dict_get(raw.id) ELSE JNull,
                               -32700, "Parse error", DebugDetail(debug, e)),
                 "none", FALSE)

\* ---------------------------------------------------------------- routing
\* The `initialize` branch: reads clientInfo, then builds the response from
\* the capabilities literal.
initialize_branch(debug, id, params) ==
    IF params.clientInfo.t \notin {"absent", "dict"}
    THEN CatchAll(debug, Exc("AttributeError", "get"), "initialize")
    ELSE IF ~CapabilitiesLiteral.ok
         THEN CatchAll(debug, CapabilitiesLiteral.exc, "initialize")
         ELSE Outcome(200, ResultEnvelope(id, CapabilitiesLiteral.value),
                      "initialize", FALSE)

\* Variant of shutdown_branch: the acknowledgement is sent without the
\* request's id.
shutdown_branch_no_id(id) == Outcome(200, ResultEnvelope(JNull, JNull), "shutdown", FALSE)

\* The `shutdown` branch.
shutdown_branch(id) == Outcome(200, ResultEnvelope(id, JNull), "shutdown", FALSE)

\* The `list_tables` branch.
list_tables_branch(id) ==
    Outcome(200, ResultEnvelope(id, [tables |-> <<"users", "products", "orders">>]),
            "list_tables", TRUE)

\* Variant of InvalidParams: the envelope is sent with HTTP 400.
InvalidParams_bad_request(id, name, handler) ==
    Outcome(400,
            ErrorEnvelope(id, -32602, "Invalid params",
                          [detail |-> <<"Missing required parameter", name>>]),
            handler, FALSE)

\* The Invalid params response of a tool branch (no status_code: HTTP 200).
InvalidParams(id, name, handler) ==
    Outcome(200,
            ErrorEnvelope(id, -32602, "Invalid params",
                          [detail |-> <<"Missing required parameter", name>>]),
            handler, FALSE)

\* The `discover_data` branch.
discover_data_branch(id, params) ==
    IF ~Truthy(dict_get(params.table))
    THEN InvalidParams(id, "table", "discover_data")
    ELSE Outcome(200,
                 ResultEnvelope(id, [columns |-> << [name |-> "id", type |-> "integer"],
                                                    [name |-> "name", type |-> "string"],
                                                    [name |-> "created_at",
                                                     type |-> "timestamp"] >>]),
                 "discover_data", TRUE)

\* The `prepare_query` branch.
prepare_query_branch(id, params) ==
    IF ~Truthy(dict_get(params.query))
    THEN InvalidParams(id, "query", "prepare_query")
    ELSE Outcome(200, ResultEnvelope(id, [prepared |-> TRUE, parameters |-> <<>>]),
                 "prepare_query", TRUE)

\* Variant of query_branch: the stub rows are left out of the result.
query_branch_no_rows(id, params) ==
    IF ~Truthy(dict_get(params.query))
    THEN InvalidParams(id, "query", "query")
    ELSE Outcome(200, ResultEnvelope(id, [columns |-> <<"id", "name">>, rows |-> <<>>]),
                 "query", TRUE)

\* The `query` branch.
query_branch(id, params) ==
    IF ~Truthy(dict_get(params.query))
    THEN InvalidParams(id, "query", "query")
    ELSE Outcome(200,
                 ResultEnvelope(id, [columns |-> <<"id", "name">>,
                                     rows |-> << <<1, "Example">>, <<2, "Test">> >>]),
                 "query", TRUE)

\* Variant of method_not_found: the code of Invalid Request, and the method
\* name left out of data.
method_not_found_invalid_request(id, method) ==
    Outcome(200, ErrorEnvelope(id, -32600, "Method not found", JNull), "else", FALSE)

\* The exceptions the try body of a tool branch can raise.  The bodies only
\* read params with dict.get and build literals, so there are none.
BackendFaults == {}

\* The `except Exception` handler of a tool branch.
ApplicationError(debug, id, e, handler) ==
    Outcome(200, ErrorEnvelope(id, -32000, "Internal error", DebugDetail(debug, e)),
            handler, TRUE)

\* The try / except around the body of a tool branch.
tool_try(debug, id, handler, body) ==
    IF BackendFaults = {}
    THEN body
    ELSE ApplicationError(debug, id, CHOOSE e \in BackendFaults : TRUE, handler)

\* The final `else` branch.
method_not_found(id, method) ==
    Outcome(200, ErrorEnvelope(id, -32601, "Method not found", [method |-> method]),
            "else", FALSE)

\* The if / elif chain on `method`.
Route(debug, r) ==
    CASE r.method = "initialize" -> initialize_branch(debug, r.id, r.params)
      [] r.method = "shutdown" -> shutdown_branch(r.id)
      [] r.method = "list_tables" ->
            tool_try(debug, r.id, "list_tables", list_tables_branch(r.id))
      [] r.method = "discover_data" ->
            tool_try(debug, r.id, "discover_data", discover_data_branch(r.id, r.params))
      [] r.method = "prepare_query" ->
            tool_try(debug, r.id, "prepare_query", prepare_query_branch(r.id, r.params))
      [] r.method = "query" ->
            tool_try(debug, r.id, "query", query_branch(r.id, r.params))
      [] OTHER -> method_not_found(r.id, r.method)

\* One whole call of the endpoint on the body `raw`.
Handle(debug, raw) ==
    LET j == request_json(raw)
    IN  IF ~j.ok
        THEN ParseErrorResponse(debug, raw, FALSE, j.exc)
        ELSE LET r == MCPRequest(raw)
             IN  IF ~r.ok
                 THEN ParseErrorResponse(debug, raw, TRUE, r.exc)
                 ELSE Route(debug, r)

\* ------------------------------------------------------------------- state
VARIABLES
    DEBUG,       \* the debug flag, read once from the environment
    request,     \* the body of the call served last
    response,    \* what that call produced
    sessions     \* per event-stream connection: generator position and output

vars == <<DEBUG, request, response, sessions>>

SessionIds == 1..MaxSessions

\* Tokens uuid.uuid4() can return.
ClientIds == {"uuid-a", "uuid-b", "uuid-c"}

\* A connection that has not been opened.
NoSession == [pc |-> "closed", client_id |-> "", events |-> <<>>, how |-> ""]

\* Before the first call.
NoRequest == NonObject("none", "none")

NoResponse == Outcome(0, [jsonrpc |-> "2.0"], "none", FALSE)

Init ==
    /\ DEBUG \in BOOLEAN
    /\ request = NoRequest
    /\ response = NoResponse
    /\ sessions = [s \in SessionIds |-> NoSession]

\* Variant of serve: the endpoint remembers a shutdown and refuses the calls
\* that follow it.
serve_after_shutdown(raw) ==
    /\ request' = raw
    /\ response' = IF response.handler = "shutdown"
                   THEN CatchAll(DEBUG, Exc("RuntimeError", "shutdown"), "none")
                   ELSE Handle(DEBUG, raw)
    /\ UNCHANGED <<DEBUG, sessions>>

\* One call of the endpoint with the body raw: the response is returned to
\* the client and nothing else is kept.
serve(raw) ==
    /\ request' = raw
    /\ response' = Handle(DEBUG, raw)
    /\ UNCHANGED <<DEBUG, sessions>>

\* POST /: serve one call.
mcp_post == \E raw \in Bodies : serve(raw)

Next == mcp_post

\* The call endpoint alone.
Spec == Init /\ [][Next]_vars

\* ---------------------------------------------------------- event streams
ReadyEvent(c) == [type |-> "ready", clientId |-> c]

\* The capabilities chunk: the literal wrapped with the fixed id 1.
CapabilitiesEvent(value) ==
    [type |-> "capabilities", jsonrpc |-> "2.0", id |-> 1, result |-> value]

\* The chunk of the outer `except Exception` handler.
ErrorEvent(e) == [type |-> "error", message |-> "Stream error", detail |-> e.msg]

\* Generator positions at which the coroutine is suspended and can be
\* cancelled or closed: before its first step, at a yield, in a sleep.
SuspensionPoints == {"created", "yield_ready", "sleep_grace", "yield_error"}

Emit(sess, ev, pc) == [sess EXCEPT !.events = Append(@, ev), !.pc = pc]

\* GET /sse: draw the client id and hand event_stream() to the response.
sse(s) ==
    /\ sessions[s].pc = "closed"
    /\ \E c \in ClientIds :
          sessions' = [sessions EXCEPT ![s] = [@ EXCEPT !.pc = "created", !.client_id = c]]
    /\ UNCHANGED <<DEBUG, request, response>>

\* First step of the generator: yield the ready chunk.
yield_ready(s) ==
    /\ sessions[s].pc = "created"
    /\ sessions' = [sessions EXCEPT
                      ![s] = Emit(@, ReadyEvent(@.client_id), "yield_ready")]
    /\ UNCHANGED <<DEBUG, request, response>>

\* The consumer asks for the next chunk: the generator enters sleep(1).
sleep_grace(s) ==
    /\ sessions[s].pc = "yield_ready"
    /\ sessions' = [sessions EXCEPT ![s] = [@ EXCEPT !.pc = "sleep_grace"]]
    /\ UNCHANGED <<DEBUG, request, response>>

\* Variant of yield_capabilities: the outer handler logs the exception and
\* ends the stream without emitting the error chunk.
yield_capabilities_no_error_event(s) ==
    /\ sessions[s].pc = "sleep_grace"
    /\ sessions' = [sessions EXCEPT
                      ![s] = IF CapabilitiesLiteral.ok
                             THEN Emit(@, CapabilitiesEvent(CapabilitiesLiteral.value),
                                       "heartbeat_sleep")
                             ELSE [@ EXCEPT !.pc = "yield_error"]]
    /\ UNCHANGED <<DEBUG, request, response>>

\* After the grace delay: build the capabilities response and yield it;
\* an exception while building it is caught by the outer handler, which
\* yields the error chunk.  The heartbeat loop follows the capabilities
\* chunk; the literal raises in every session, so the loop has no step here.
yield_capabilities(s) ==
    /\ sessions[s].pc = "sleep_grace"
    /\ sessions' = [sessions EXCEPT
                      ![s] = IF CapabilitiesLiteral.ok
                             THEN Emit(@, CapabilitiesEvent(CapabilitiesLiteral.value),
                                       "heartbeat_sleep")
                             ELSE Emit(@, ErrorEvent(CapabilitiesLiteral.exc),
                                       "yield_error")]
    /\ UNCHANGED <<DEBUG, request, response>>

\* The consumer asks for the chunk after the error chunk: the handler ends,
\* `finally` runs and the generator is exhausted.
stream_end(s) ==
    /\ sessions[s].pc = "yield_error"
    /\ sessions' = [sessions EXCEPT ![s] = [@ EXCEPT !.pc = "done", !.how = "stream_error"]]
    /\ UNCHANGED <<DEBUG, request, response>>

\* Variant of cancel: the cancellation is caught by the outer
\* `except Exception`, which emits the error chunk before the session ends.
cancel_emits_error(s) ==
    /\ sessions[s].pc \in SuspensionPoints
    /\ sessions' = [sessions EXCEPT
                      ![s] = [@ EXCEPT !.pc = "done", !.how = "cancelled",
                                       !.events = Append(@, ErrorEvent(Exc("CancelledError", "")))]]
    /\ UNCHANGED <<DEBUG, request, response>>

\* Variant of cancel: no check that the generator is still suspended, so a
\* session that already ended is terminated a second time.
cancel_unguarded(s) ==
    /\ sessions[s].pc # "closed"
    /\ sessions' = [sessions EXCEPT ![s] = [@ EXCEPT !.pc = "done", !.how = "cancelled"]]
    /\ UNCHANGED <<DEBUG, request, response>>

\* Variant of cancel: one stop signal shared by all sessions, so a
\* disconnect ends every open session.
cancel_all(s) ==
    /\ sessions[s].pc \in SuspensionPoints
    /\ sessions' = [t \in SessionIds |->
                      IF sessions[t].pc \in SuspensionPoints
                      THEN [sessions[t] EXCEPT !.pc = "done", !.how = "cancelled"]
                      ELSE sessions[t]]
    /\ UNCHANGED <<DEBUG, request, response>>

\* Client disconnect: CancelledError in the sleep, GeneratorExit at a yield.
\* Neither is an Exception, so no handler runs, only `finally`.
cancel(s) ==
    /\ sessions[s].pc \in SuspensionPoints
    /\ sessions' = [sessions EXCEPT ![s] = [@ EXCEPT !.pc = "done", !.how = "cancelled"]]
    /\ UNCHANGED <<DEBUG, request, response>>

NextSse ==
    \E s \in SessionIds :
        \/ sse(s)
        \/ yield_ready(s)
        \/ sleep_grace(s)
        \/ yield_capabilities(s)
        \/ stream_end(s)
        \/ cancel(s)

\* The event-stream endpoint alone.
SpecSse == Init /\ [][NextSse]_vars

\* ------------------------------------------------- calls next to sessions
\* A well-formed call body.
Call(id, method, params) ==
    [raw |-> "json", t |-> "dict", jsonrpc |-> JStr("2.0"), id |-> id,
     method |-> JStr(method), params |-> params]

\* One body per outcome of the call endpoint, for runs in which calls are
\* interleaved with the steps of the open sessions.
SampleBodies ==
    {NonObject("empty", "none"), NonObject("json", "list"),
     [raw |-> "json", t |-> "dict", jsonrpc |-> JStr("2.0"), id |-> JInt(1),
      method |-> Absent, params |-> NoParams("absent")],
     Call(JInt(1), "initialize", NoParams("dict")),
     Call(JInt(1), "shutdown", NoParams("absent")),
     Call(JStr("req-a"), "list_tables", NoParams("absent")),
     Call(JInt(1), "discover_data", NoParams("dict")),
     Call(JInt(1), "query",
          [t |-> "dict", table |-> Absent, query |-> JStr("users"), clientInfo |-> Absent]),
     Call(JInt(1), "list_views", NoParams("absent"))}

\* POST / while sessions are open.
mcp_post_sample == \E raw \in SampleBodies : serve(raw)

NextAll == mcp_post_sample \/ NextSse

\* Calls and sessions interleaved.
SpecAll == Init /\ [][NextAll]_vars


\* ------------------------------------------------------------- properties
\* A call has been served.
Served == response.status # 0

HasResult == "result" \in DOMAIN response.content

HasError == "error" \in DOMAIN response.content

\* The body parsed and passed MCPRequest validation.
Decoded(raw) == request_json(raw).ok /\ MCPRequest(raw).ok

ErrorCode == IF HasError THEN response.content.error.code ELSE 0

\* params[f] as the branch reads it: params missing or null reads as {}.
ReqField(raw, f) == IF raw.params.t = "dict" THEN raw.params[f] ELSE Absent

ToolMethods == {"list_tables", "discover_data", "prepare_query", "query"}

\* C1: every served call has an envelope with exactly one of result / error,
\* and its status is one the endpoint sets (no call ends without an envelope).
C1_ExactlyOneOfResultError ==
    Served => /\ HasResult # HasError
              /\ response.status \in {200, 400, 500}
              /\ response.content.jsonrpc = "2.0"

\* An empty body has been answered with an error-only envelope.
C1_Witness ==
    /\ request = NonObject("empty", "none")
    /\ Served /\ HasError /\ ~HasResult

\* C2: the response to a decoded request carries the request's id unchanged,
\* whatever the method and the outcome.
C2_IdRoundTrip ==
    (Served /\ Decoded(request)) => response.content.id = request.id

\* C3: a decoded request with an unrouted method gets MethodNotFound with
\* data.method equal to the method and the request's id.
C3_MethodNotFound ==
    (Served /\ Decoded(request) /\ request.method.s \notin KnownMethods)
        => /\ HasError /\ ~HasResult
           /\ response.content.error.code = -32601
           /\ response.content.error.data = [method |-> request.method.s]
           /\ response.content.id = request.id

\* An unrouted method has been answered.
C3_Witness ==
    /\ Served /\ Decoded(request)
    /\ request.method.s = "list_views"
    /\ request.id = JStr("req-a")
    /\ ErrorCode = -32601

\* The required parameter of the tool method m, "" when it has none.
RequiredField(m) ==
    CASE m = "discover_data" -> "table"
      [] m \in {"prepare_query", "query"} -> "query"
      [] OTHER -> ""

\* The request is a tool call whose required parameter is missing or empty.
MissingRequired(raw) ==
    /\ Decoded(raw)
    /\ RequiredField(raw.method.s) # ""
    /\ ReqField(raw, RequiredField(raw.method.s)) \in {Absent, JStr("")}

\* C4: a discover_data / prepare_query / query call whose required parameter
\* is missing or empty gets InvalidParams and never reaches the backend step.
C4_InvalidParams ==
    (Served /\ MissingRequired(request))
        => /\ HasError /\ ~HasResult
           /\ response.content.error.code = -32602
           /\ ~response.backend

\* A query call without params and a discover_data call with an empty table
\* are both cases of C4; the witness is the latter.
C4_Witness ==
    /\ Served /\ MissingRequired(request)
    /\ request.method.s = "discover_data"
    /\ request.params.t = "dict" /\ request.params.table = JStr("")
    /\ ErrorCode = -32602

\* A valid initialize call: decoded, clientInfo missing or an object.
ValidInitialize(raw) ==
    /\ Decoded(raw)
    /\ raw.method.s = "initialize"
    /\ ReqField(raw, "clientInfo").t \in {"absent", "dict"}

\* C5: a valid initialize call yields a success response whose result holds
\* the capabilities (server name, version, four tools), with the id echoed.
C5_InitializeSucceeds ==
    (Served /\ ValidInitialize(request))
        => /\ HasResult /\ ~HasError
           /\ response.content.id = request.id
           /\ response.content.result.capabilities.serverName = MCP_SERVER_NAME
           /\ Len(response.content.result.capabilities.tools) = 4

\* C6: a body that does not decode (unparseable, empty, not an object, id or
\* method missing or wrong-typed) gets ParseError and no method branch runs.
C6_ParseError ==
    (Served /\ ~Decoded(request))
        => /\ HasError
           /\ response.content.error.code = -32700
           /\ response.handler = "none"

\* The id that can be recovered from a body: the id key of an object.
RecoverableId(raw) ==
    IF raw.raw = "json" /\ raw.t = "dict" /\ raw.id # Absent THEN raw.id ELSE JNull

\* C7: the error response to a body that does not decode carries the id
\* recovered from the body, and null when there is none to recover.
C7_BestEffortId ==
    (Served /\ ~Decoded(request))
        => /\ HasError /\ ~HasResult
           /\ response.content.id = RecoverableId(request)

\* An object body without method has been answered with its id.
C7_Witness ==
    /\ Served /\ ~Decoded(request)
    /\ request.t = "dict" /\ request.method = Absent
    /\ request.id = JInt(1)
    /\ response.content.id = JInt(1)

\* A tool method returned a success result.
ToolSuccess(resp) == resp.handler \in ToolMethods /\ "result" \in DOMAIN resp.content

\* C8: a tool call returns a success result only while the client is
\* Initialized: not as the first call ever (Uninitialized), and not as the
\* call that follows a shutdown (ShuttingDown).
C8_LifecycleEnforced ==
    [][(~Served \/ response.handler = "shutdown") => ~ToolSuccess(response')]_vars

\* C9: in every session the first event is ready with the session's client
\* id, the second is the capabilities event, and heartbeats come only after.
C9_EventOrder ==
    \A s \in SessionIds :
        LET ev == sessions[s].events
        IN  /\ Len(ev) >= 1 => ev[1] = ReadyEvent(sessions[s].client_id)
            /\ Len(ev) >= 2 => ev[2].type = "capabilities"
            /\ \A k \in 1..Len(ev) : ev[k].type = "heartbeat" => k >= 3

\* The events of type ty in the sequence ev.
EventsOfType(ev, ty) == {k \in 1..Len(ev) : ev[k].type = ty}

\* Session s is cancelled in this step.
Cancelled(s) == sessions[s].how # "cancelled" /\ sessions'[s].how = "cancelled"

\* C11: the step that cancels a session, at whichever suspension point it
\* is, ends the session at once and emits nothing (no heartbeat, no error
\* event), and a cancelled session emits nothing afterwards.
C11_CancelTerminates ==
    [][\A s \in SessionIds :
          /\ Cancelled(s) => /\ sessions'[s].pc = "done"
                             /\ sessions'[s].events = sessions[s].events
          /\ sessions[s].how = "cancelled" => sessions'[s].events = sessions[s].events]_vars

\* A session was cancelled in the grace delay or at the send of the ready
\* chunk: it is over with the ready event as its only event.
C11_Witness ==
    \E s \in SessionIds :
        /\ sessions[s].how = "cancelled" /\ sessions[s].pc = "done"
        /\ sessions[s].events = <<ReadyEvent(sessions[s].client_id)>>

\* C12: a session that met a stream error has emitted exactly one error
\* event, that event is its last event, and the session that ended on the
\* error path ended right after it.
C12_OneFinalErrorEvent ==
    \A s \in SessionIds :
        LET ev == sessions[s].events
            errs == EventsOfType(ev, "error")
        IN  /\ Cardinality(errs) <= 1
            /\ errs # {} => errs = {Len(ev)}
            /\ sessions[s].pc = "yield_error" => Cardinality(errs) = 1
            /\ sessions[s].how = "stream_error"
                 => sessions[s].pc = "done" /\ Cardinality(errs) = 1

\* A session ended on the error path after its one error event.
C12_Witness ==
    \E s \in SessionIds :
        /\ sessions[s].how = "stream_error" /\ sessions[s].pc = "done"
        /\ Len(sessions[s].events) = 2
        /\ sessions[s].events[2].type = "error"

\* C13: a step of one session (its cancellation or its end on the error
\* path included) leaves every other session as it was, with its client id,
\* its events and its position, and leaves the response of the call
\* endpoint as it was; a call leaves every session as it was.
C13_SessionIsolation ==
    [][/\ \A s \in SessionIds :
             sessions'[s] # sessions[s]
                => /\ \A t \in SessionIds \ {s} : sessions'[t] = sessions[t]
                   /\ response' = response
                   /\ request' = request
       /\ (response' # response \/ request' # request) => sessions' = sessions]_vars

\* One session was cancelled while another is still in its grace delay, and
\* a call has been answered with a result.
C13_Witness ==
    /\ Served /\ HasResult
    /\ \E s, t \in SessionIds :
          /\ s # t
          /\ sessions[s].how = "cancelled"
          /\ sessions[t].pc = "sleep_grace"
          /\ sessions[t].events = <<ReadyEvent(sessions[t].client_id)>>

\* The codes of the responses that report a fault.
FaultCodes == {-32700, -32000, -32603}

\* C14: with the debug flag off a fault response carries no data, and it is
\* the response any other faulting body with the same code and id gets,
\* whatever the message of its fault; with the flag on, data.detail is there.
C14_NoLeakUnlessDebug ==
    (Served /\ HasError /\ ErrorCode \in FaultCodes)
        => /\ ~DEBUG => response.content.error.data = JNull
           /\ DEBUG => "detail" \in DOMAIN response.content.error.data
           /\ ~DEBUG =>
                \A other \in Bodies :
                    LET o == Handle(DEBUG, other).content
                    IN  ("error" \in DOMAIN o /\ o.error.code = ErrorCode
                            /\ o.id = response.content.id)
                        => o = response.content

\* With the flag off a body that fails validation was answered, and a body
\* whose fault has another message gets the very same response.
C14_Witness ==
    /\ ~DEBUG /\ Served /\ ErrorCode = -32700
    /\ response.content.error.data = JNull
    /\ \E other \in Bodies :
          /\ Handle(FALSE, other).content = response.content
          /\ Handle(TRUE, other).content # Handle(TRUE, request).content

\* The decoded request raises outside the try body of a tool branch: the
\* initialize branch calls .get on a clientInfo that is not an object, or
\* evaluates the capabilities literal with an unbound name.
DispatchFault(raw) ==
    /\ Decoded(raw)
    /\ raw.method.s = "initialize"
    /\ \/ ReqField(raw, "clientInfo").t \notin {"absent", "dict"}
       \/ ~CapabilitiesLiteral.ok

\* C15: a fault in dispatch after decoding, outside a backend step, yields an
\* error envelope with code -32603 and no result, and only such a fault
\* does; a response with code -32000 comes from the backend step of a tool
\* branch and carries the request's id and no result.
C15_FaultCodes ==
    /\ (Served /\ DispatchFault(request))
          => /\ HasError /\ ~HasResult
             /\ response.content.error.code = -32603
    /\ (Served /\ Decoded(request) /\ ErrorCode = -32603) => DispatchFault(request)
    /\ (Served /\ ErrorCode = -32000)
          => /\ response.handler \in ToolMethods /\ response.backend
             /\ response.content.id = request.id
             /\ ~HasResult

\* An initialize call whose clientInfo is a string raised in the branch and
\* was answered with InternalError.
C15_Witness ==
    /\ Served /\ DispatchFault(request)
    /\ ReqField(request, "clientInfo") = JStr("vscode")
    /\ response.handler = "initialize"
    /\ ErrorCode = -32603

\* C16: a decoded query call whose query is a non-empty string gets a success
\* result with columns <<"id", "name">> and exactly two rows, with the
\* request's id, whatever the text and whatever was served before.
C16_QueryStub ==
    (Served /\ Decoded(request) /\ request.method.s = "query"
       /\ ReqField(request, "query").t = "str" /\ ReqField(request, "query").s # "")
        => /\ HasResult /\ ~HasError
           /\ response.content.result.columns = <<"id", "name">>
           /\ Len(response.content.result.rows) = 2
           /\ response.content.id = request.id

\* A query call with the text "users" and a string id has been answered.
C16_Witness ==
    /\ Served /\ Decoded(request) /\ request.method.s = "query"
    /\ ReqField(request, "query") = JStr("users")
    /\ request.id = JStr("req-a")
    /\ HasResult

\* C17: a decoded shutdown call, whatever its params and whatever was served
\* before, gets a success response with a null result and the request's id.
C17_ShutdownAlwaysSucceeds ==
    (Served /\ Decoded(request) /\ request.method.s = "shutdown")
        => /\ HasResult /\ ~HasError
           /\ response.content.result = JNull
           /\ response.content.id = request.id
           /\ response.status = 200

\* A shutdown call that carries params has been acknowledged.
C17_Witness ==
    /\ Served /\ Decoded(request) /\ request.method.s = "shutdown"
    /\ request.params.t = "dict" /\ request.params.query = JStr("users")
    /\ HasResult /\ response.content.result = JNull

\* The request is a tool call whose required parameter is present and is
\* not a string.
NonStringRequired(raw) ==
    /\ Decoded(raw)
    /\ RequiredField(raw.method.s) # ""
    /\ ReqField(raw, RequiredField(raw.method.s)).t \notin {"absent", "str"}

\* C18: a discover_data / prepare_query / query call whose required parameter
\* is present but not a string gets InvalidParams, not a success result.
C18_NonStringRejected ==
    (Served /\ NonStringRequired(request))
        => /\ HasError /\ ~HasResult
           /\ response.content.error.code = -32602

Terminated(s) == sessions[s].pc = "done"

\* C20: a session ends at most once, by cancellation or on the error path
\* (the two ways out that it can reach), never by both; once it is over it
\* emits nothing and does not change; and a session that did not end on the
\* error path did not get its error event from its ending.
C20_TerminatesOnce ==
    [][\A s \in SessionIds :
          /\ Terminated(s) => sessions'[s] = sessions[s]
          /\ (~Terminated(s) /\ sessions'[s].pc = "done")
                => /\ sessions[s].how = ""
                   /\ sessions'[s].how \in {"cancelled", "stream_error"}
                   /\ sessions'[s].events = sessions[s].events
          /\ ~Terminated(s) => sessions[s].how = ""]_vars

\* Both ways out have been taken, each by one session.
C20_Witness ==
    \E s, t \in SessionIds :
        /\ sessions[s].pc = "done" /\ sessions[s].how = "cancelled"
        /\ sessions[t].pc = "done" /\ sessions[t].how = "stream_error"

\* C21: the HTTP status of a call response follows its outcome class: it is
\* 400 exactly when the envelope is a ParseError (-32700), 500 exactly when
\* it is an InternalError (-32603), and 200 for every other envelope: results
\* and the InvalidParams, MethodNotFound and ApplicationError errors.
C21_StatusByOutcome ==
    Served =>
        /\ response.status \in {200, 400, 500}
        /\ (response.status = 400) <=> (ErrorCode = -32700)
        /\ (response.status = 500) <=> (ErrorCode = -32603)
        /\ (HasResult \/ ErrorCode \in {-32602, -32601, -32000})
               => response.status = 200

\* An InvalidParams error envelope answered with HTTP 200.
C21_Witness ==
    /\ Served
    /\ HasError
    /\ ErrorCode = -32602
    /\ response.status = 200

====
